---- MODULE Spec2Model ----
(***************************************************************************)
(* A model of the useCurrentDate hook (src/src/index.ts): the parsing of   *)
(* the refreshAt option, the effect that arms the one-shot anchor timer    *)
(* and the repeating timer, and the host (React effect rules, the timer    *)
(* facility, the clock) that drives them.                                  *)
(*                                                                         *)
(* Instants are milliseconds.  Instant 0 is a UTC midnight; the local      *)
(* clock is the one of the test environment (US/Pacific in July, UTC-7).   *)
(* A string is a sequence of one-character strings.                        *)
(***************************************************************************)
EXTENDS Integers, Sequences, FiniteSets, TLC

HOUR == 60 * 60 * 1000
MINUTE == 60 * 1000
SECOND == 1000
TWENTY_FOUR_HOURS == 24 * 60 * 60 * 1000

\* Local midnight is TzOffset after UTC midnight (US/Pacific, daylight time).
TzOffset == 7 * HOUR

(***************************************************************************)
(* JavaScript values and operators                                         *)
(***************************************************************************)
Undefined == [type |-> "undefined"]
Null == [type |-> "null"]
Symbol == [type |-> "symbol"]
Num(n) == [type |-> "number", n |-> n]
Str(s) == [type |-> "string", s |-> s]
Bool(b) == [type |-> "boolean", b |-> b]
\* An array is an object: id is its identity, elems its elements.
Arr(id, elems) == [type |-> "array", id |-> id, elems |-> elems]

\* typeof v
TypeOf(v) ==
  CASE v.type = "number" -> "number"
    [] v.type = "string" -> "string"
    [] v.type = "undefined" -> "undefined"
    [] v.type = "symbol" -> "symbol"
    [] OTHER -> "object"

\* Object.is(a, b), which React uses to compare effect dependencies:
\* primitives by value, objects by identity.
ObjectIs(a, b) ==
  /\ a.type = b.type
  /\ CASE a.type = "number" -> a.n = b.n
       [] a.type = "string" -> a.s = b.s
       [] a.type = "array" -> a.id = b.id
       [] OTHER -> TRUE

\* a % b of JavaScript: the remainder has the sign of the dividend.
JsRem(a, b) == IF a >= 0 THEN a % b ELSE -((-a) % b)

Digits == {"0", "1", "2", "3", "4", "5", "6", "7", "8", "9"}
WhiteSpace == {" ", "\t", "\n"}

DigitVal(c) ==
  CASE c = "0" -> 0 [] c = "1" -> 1 [] c = "2" -> 2 [] c = "3" -> 3
    [] c = "4" -> 4 [] c = "5" -> 5 [] c = "6" -> 6 [] c = "7" -> 7
    [] c = "8" -> 8 [] c = "9" -> 9

DigitChar(d) ==
  CASE d = 0 -> "0" [] d = 1 -> "1" [] d = 2 -> "2" [] d = 3 -> "3"
    [] d = 4 -> "4" [] d = 5 -> "5" [] d = 6 -> "6" [] d = 7 -> "7"
    [] d = 8 -> "8" [] d = 9 -> "9"

\* Number(s) for a string of decimal digits.
RECURSIVE ToNumber(_)
ToNumber(s) ==
  IF s = <<>> THEN 0
  ELSE 10 * ToNumber(SubSeq(s, 1, Len(s) - 1)) + DigitVal(s[Len(s)])

\* n.toString() for a non-negative integer.
RECURSIVE NumToString(_)
NumToString(n) ==
  IF n < 10 THEN <<DigitChar(n)>>
  ELSE NumToString(n \div 10) \o <<DigitChar(n % 10)>>

\* s.padEnd(len, c)
RECURSIVE PadEnd(_, _, _)
PadEnd(s, len, c) == IF Len(s) >= len THEN s ELSE PadEnd(s \o <<c>>, len, c)

\* s.trim()
RECURSIVE TrimStart(_)
TrimStart(s) ==
  IF s # <<>> /\ s[1] \in WhiteSpace THEN TrimStart(Tail(s)) ELSE s

RECURSIVE TrimEnd(_)
TrimEnd(s) ==
  IF s # <<>> /\ s[Len(s)] \in WhiteSpace
  THEN TrimEnd(SubSeq(s, 1, Len(s) - 1)) ELSE s

Trim(s) == TrimEnd(TrimStart(s))

(***************************************************************************)
(* TIME_REGEX = /^([01]?\d|2[0-3])(?::([0-5]\d)(?::([0-5]\d)               *)
(*               (?:\.(\d{1,3}))?)?)?$/                                    *)
(* The matcher follows the expression: the alternatives of the hour group  *)
(* in the order a backtracking engine tries them, then the optional        *)
(* groups, each tried greedily, up to the end of the input.                *)
(***************************************************************************)
NoGroup == <<>>   \* a capture group that did not take part in the match

IsDigitAt(s, p) == p <= Len(s) /\ s[p] \in Digits

\* HourEnds with [0-2]?\d for the first alternative.
HourEnds_UpTo29(s) ==
  (IF Len(s) >= 2 /\ s[1] \in {"0", "1", "2"} /\ IsDigitAt(s, 2)
   THEN <<2>> ELSE <<>>)
  \o (IF IsDigitAt(s, 1) THEN <<1>> ELSE <<>>)

\* The ends of group 1, ([01]?\d|2[0-3]), in the order they are tried.
HourEnds(s) ==
  (IF Len(s) >= 2 /\ s[1] \in {"0", "1"} /\ IsDigitAt(s, 2) THEN <<2>> ELSE <<>>)
  \o (IF IsDigitAt(s, 1) THEN <<1>> ELSE <<>>)
  \o (IF Len(s) >= 2 /\ s[1] = "2" /\ s[2] \in {"0", "1", "2", "3"}
      THEN <<2>> ELSE <<>>)

\* :([0-5]\d) at position p
SexagesimalAt(s, p) ==
  /\ p + 2 <= Len(s)
  /\ s[p] = ":"
  /\ s[p + 1] \in {"0", "1", "2", "3", "4", "5"}
  /\ s[p + 2] \in Digits

\* (?:\.(\d{1,3}))?$ at position p: the groups captured, or <<>> for no match.
FractionTail(s, p) ==
  LET n == Len(s) - p   \* characters after the dot
  IN IF /\ p <= Len(s) /\ s[p] = "."
        /\ n \in 1..3
        /\ \A i \in (p + 1)..Len(s) : s[i] \in Digits
     THEN <<SubSeq(s, p + 1, Len(s))>>
     ELSE IF p = Len(s) + 1 THEN <<NoGroup>> ELSE <<>>

\* An optional group at position p: the groups of its match when its inside
\* matched up to the end (inner, <<>> when it did not), else the groups of
\* the empty match (skipped) when the input ends at p, else no match.
OptionalGroup(s, p, inner, skipped) ==
  IF inner # <<>> THEN <<SubSeq(s, p + 1, p + 2)>> \o inner
  ELSE IF p = Len(s) + 1 THEN skipped ELSE <<>>

\* (?::([0-5]\d)(?:\.(\d{1,3}))?)?$ at position p
SecondsTail(s, p) ==
  OptionalGroup(s, p,
                IF SexagesimalAt(s, p) THEN FractionTail(s, p + 3) ELSE <<>>,
                <<NoGroup, NoGroup>>)

\* (?::([0-5]\d)(?::([0-5]\d)(?:\.(\d{1,3}))?)?)?$ at position p
MinutesTail(s, p) ==
  OptionalGroup(s, p,
                IF SexagesimalAt(s, p) THEN SecondsTail(s, p + 3) ELSE <<>>,
                <<NoGroup, NoGroup, NoGroup>>)

\* The first of the attempts (one per end of group 1, in order) that matched.
FirstMatch(s, ends, tails) ==
  LET ok == {i \in 1..Len(ends) : tails[i] # <<>>}
  IN IF ok = {} THEN [matched |-> FALSE, groups |-> <<>>]
     ELSE LET i == CHOOSE j \in ok : \A k \in ok : j <= k
          IN [matched |-> TRUE, groups |-> <<SubSeq(s, 1, ends[i])>> \o tails[i]]

TailsFrom(s, ends) == [i \in 1..Len(ends) |-> MinutesTail(s, ends[i] + 1)]

\* TIME_REGEX.exec(s): [matched, groups], groups being capture groups 1..4.
TimeRegexExec(s) == FirstMatch(s, HourEnds(s), TailsFrom(s, HourEnds(s)))

(***************************************************************************)
(* getRefreshValues                                                        *)
(***************************************************************************)
\* new Error(message): text is the fixed part of the message, received the
\* value interpolated into it (<<>> when the message has none).
Error(text, received) == [text |-> text, received |-> received]

\* (the message quotes the expected format in backquotes, which a string of
\* this module cannot hold)
InvalidFormatText ==
  "Invalid refreshAt value format.  Expected h[:mm[:ss[.ms]]].  Received: "
InvalidTypeText ==
  "refreshAt must be a string, a number, or an array of strings and numbers"
EmptyText == "refreshAt must have at least one value"

Returned(v) == [ok |-> TRUE, value |-> v]
Thrown(e) == [ok |-> FALSE, error |-> e]

\* Date.UTC(1970, 0, 1, ...timeSegments): absent segments count as 0.
DateUTC1970(seg) ==
  LET at(i) == IF i <= Len(seg) THEN seg[i] ELSE 0
  IN at(1) * HOUR + at(2) * MINUTE + at(3) * SECOND + at(4)

\* The segments of a matched string: the groups that took part, as numbers,
\* the fourth right-padded to three digits when it is below 100.
PadSegments(nums) ==
  IF Len(nums) = 4 /\ nums[4] < 100
  THEN [nums EXCEPT ![4] = ToNumber(PadEnd(NumToString(nums[4]), 3, "0"))]
  ELSE nums

Numbers(strs) == [i \in 1..Len(strs) |-> ToNumber(strs[i])]

TimeSegments(groups) ==
  PadSegments(Numbers(SelectSeq(groups, LAMBDA g : g # NoGroup)))

\* The callback of .map(): one element of the flattened refreshAt.
StringValue(v, m) ==
  IF ~m.matched THEN Thrown(Error(InvalidFormatText, v.s))
  ELSE Returned(DateUTC1970(TimeSegments(m.groups)))

RefreshValue(v) ==
  CASE TypeOf(v) = "number" -> Returned(JsRem(v.n, TWENTY_FOUR_HOURS))
    [] TypeOf(v) = "string" -> StringValue(v, TimeRegexExec(Trim(v.s)))
    [] OTHER -> Thrown(Error(InvalidTypeText, <<>>))

\* [refreshAt].flat()
Flat(refreshAt) ==
  IF refreshAt.type = "array" THEN refreshAt.elems ELSE <<refreshAt>>

\* FirstThrow reporting the last element that throws.
FirstThrow_Last(results) ==
  LET bad == {i \in 1..Len(results) : ~results[i].ok}
  IN IF bad = {} THEN 0 ELSE CHOOSE i \in bad : \A j \in bad : i >= j

\* The index of the first element whose callback throws, 0 when none does:
\* .map() visits the elements in order and stops at the first throw.
FirstThrow(results) ==
  LET bad == {i \in 1..Len(results) : ~results[i].ok}
  IN IF bad = {} THEN 0 ELSE CHOOSE i \in bad : \A j \in bad : i <= j

\* SortAscending without the sort.
SortAscending_AsGiven(s) == s

\* .sort((a, b) => a - b)
SortAscending(s) == SortSeq(s, LAMBDA a, b : a < b)

\* .map(callback): the callback's results, up to the first that throws.
Map(flat) == [i \in 1..Len(flat) |-> RefreshValue(flat[i])]

\* The throw of the first element that throws, else the values sorted.
MapThenSort(results, k) ==
  IF k # 0 THEN results[k]
  ELSE Returned(SortAscending([i \in 1..Len(results) |-> results[i].value]))

ThrowOrSort(results) == MapThenSort(results, FirstThrow(results))

getRefreshValues(refreshAt) == ThrowOrSort(Map(Flat(refreshAt)))

(***************************************************************************)
(* The effect of useCurrentDate                                            *)
(***************************************************************************)
\* getCurrentMidnight(utc).getTime() at instant t
getCurrentMidnight(utc, t) ==
  IF utc THEN t - (t % TWENTY_FOUR_HOURS)
  ELSE t - ((t - TzOffset) % TWENTY_FOUR_HOURS)

\* array.find(pred) ?? dflt
FindOr(s, Pred(_), dflt) ==
  LET hits == {i \in 1..Len(s) : Pred(s[i])}
  IN IF hits = {} THEN dflt ELSE s[CHOOSE i \in hits : \A j \in hits : i <= j]

\* array.reverse()
Reverse(s) == [i \in 1..Len(s) |-> s[Len(s) + 1 - i]]

\* NextRefresh taking the first offset strictly after now.
NextRefresh_StrictlyAfter(refreshes, currentMidnightTime, t) ==
  currentMidnightTime
    + FindOr(refreshes, LAMBDA v : currentMidnightTime + v > t,
             TWENTY_FOUR_HOURS + refreshes[1])

\* nextRefresh for a non-empty sorted list of offsets
NextRefresh(refreshes, currentMidnightTime, t) ==
  currentMidnightTime
    + FindOr(refreshes, LAMBDA v : currentMidnightTime + v >= t,
             TWENTY_FOUR_HOURS + refreshes[1])

\* prevRefresh: the same list reversed
PrevRefresh(refreshes, currentMidnightTime, t) ==
  LET reversed == Reverse(refreshes)
  IN currentMidnightTime
       + FindOr(reversed, LAMBDA v : currentMidnightTime + v < t,
                TWENTY_FOUR_HOURS + reversed[1])

\* ResolveInterval with a default of twelve hours.
ResolveInterval_HalfDay(interval) ==
  IF interval.type \in {"undefined", "null"} THEN 12 * HOUR ELSE interval.n

\* int ??= TWENTY_FOUR_HOURS
ResolveInterval(interval) ==
  IF interval.type \in {"undefined", "null"} THEN TWENTY_FOUR_HOURS
  ELSE interval.n

\* FirstFireDelay counting the period from the call.
FirstFireDelay_FromCall(fromTime, ms, t) == ms

\* The delay of the first fire of setIntervalRelativeTo(fn, fromTime, ms)
FirstFireDelay(fromTime, ms, t) == ms - JsRem(t - fromTime, ms)

\* The body of the effect up to the arming of the timers: the schedule it
\* computes at instant t, or the error it throws.
Schedule(utc, int, t, currentMidnightTime, next, prev) ==
  Returned([at |-> t, utc |-> utc, midnight |-> currentMidnightTime,
            next |-> next, prev |-> prev, ms |-> int])

\* ScheduleAt taking an empty list for no anchors.
ScheduleAt_EmptyAsMidnight(parsed, utc, int, t, currentMidnightTime) ==
  IF ~parsed.ok THEN parsed
  ELSE IF Len(parsed.value) = 0
  THEN Schedule(utc, int, t, currentMidnightTime,
                currentMidnightTime + TWENTY_FOUR_HOURS, currentMidnightTime)
  ELSE Schedule(utc, int, t, currentMidnightTime,
                NextRefresh(parsed.value, currentMidnightTime, t),
                PrevRefresh(parsed.value, currentMidnightTime, t))

\* The else branch: refreshAt is given, parsed is what getRefreshValues did.
ScheduleAt(parsed, utc, int, t, currentMidnightTime) ==
  IF ~parsed.ok THEN parsed
  ELSE IF Len(parsed.value) = 0 THEN Thrown(Error(EmptyText, <<>>))
  ELSE Schedule(utc, int, t, currentMidnightTime,
                NextRefresh(parsed.value, currentMidnightTime, t),
                PrevRefresh(parsed.value, currentMidnightTime, t))

\* ScheduleFrom taking undefined alone for no anchors (refreshAt === undefined).
ScheduleFrom_UndefinedOnly(utc, refreshAt, int, t, currentMidnightTime) ==
  IF refreshAt.type = "undefined"
  THEN Schedule(utc, int, t, currentMidnightTime,
                currentMidnightTime + TWENTY_FOUR_HOURS, currentMidnightTime)
  ELSE ScheduleAt(getRefreshValues(refreshAt), utc, int, t, currentMidnightTime)

ScheduleFrom(utc, refreshAt, int, t, currentMidnightTime) ==
  IF refreshAt.type \in {"undefined", "null"}
  THEN Schedule(utc, int, t, currentMidnightTime,
                currentMidnightTime + TWENTY_FOUR_HOURS, currentMidnightTime)
  ELSE ScheduleAt(getRefreshValues(refreshAt), utc, int, t, currentMidnightTime)

ComputeSchedule(utc, refreshAt, int, t) ==
  ScheduleFrom(utc, refreshAt, int, t, getCurrentMidnight(utc, t))

\* ResolveReturnCurrentTime with refreshAt.length > 0.
ResolveReturnCurrentTime_AnyArray(p) ==
  IF p.returnCurrentTime.type \in {"undefined", "null"}
  THEN \/ p.interval.type \notin {"undefined", "null"}
       \/ (p.refreshAt.type = "array" /\ Len(p.refreshAt.elems) > 0)
  ELSE p.returnCurrentTime.b

\* returnCurrentTime ??= int != null
\*                       || Array.isArray(refreshAt) && refreshAt.length > 1
ResolveReturnCurrentTime(p) ==
  IF p.returnCurrentTime.type \in {"undefined", "null"}
  THEN \/ p.interval.type \notin {"undefined", "null"}
       \/ (p.refreshAt.type = "array" /\ Len(p.refreshAt.elems) > 1)
  ELSE p.returnCurrentTime.b

\* return returnCurrentTime ? new Date() : getCurrentMidnight(utc), at instant t
ReturnValue(p, t) ==
  IF ResolveReturnCurrentTime(p) THEN t ELSE getCurrentMidnight(p.utc, t)

(***************************************************************************)
(* Bounds and inputs                                                       *)
(***************************************************************************)
\* The clock stops MaxDays days after the first day.
MaxDays == 2
\* The effect runs at most MaxConfigs times (the mount included).
MaxConfigs == 2

MaxTime == (MaxDays + 1) * TWENTY_FOUR_HOURS

\* Offsets in a UTC day at which the component is mounted or given new
\* options: 03:00Z, 05:15:30.561Z (the instant of the tests), 06:30Z, which
\* is 23:30 local, 09:00Z, and 12:00Z, which is 05:00 local.
TestOffset == 5 * HOUR + 15 * MINUTE + 30 * SECOND + 561
ProbeOffsets ==
  {3 * HOUR, TestOffset, 6 * HOUR + 30 * MINUTE, 9 * HOUR, 12 * HOUR}
Probes == {d * TWENTY_FOUR_HOURS + o : d \in 1..MaxDays, o \in ProbeOffsets}
StartInstants == {TWENTY_FOUR_HOURS + o : o \in ProbeOffsets}

FiveOClock == Str(<<"5", ":", "0", "0">>)
ElevenPm == Str(<<"2", "3", ":", "0", "5", ":", "2", "1", ".", "3">>)
EightSixty == Str(<<"8", ":", "6", "0">>)

\* The refreshAt options of the scheduling runs: absent (undefined and
\* null), two arrays with the same elements and different identities, a
\* single string, an empty array, a malformed string, and an array of three
\* anchors listed out of order.
RefreshAts ==
  { Undefined,
    Null,
    Arr(1, <<FiveOClock, ElevenPm>>),
    Arr(2, <<FiveOClock, ElevenPm>>),
    FiveOClock,
    Arr(3, <<>>),
    EightSixty,
    Arr(4, <<ElevenPm, Num(10 * HOUR), FiveOClock>>) }

Intervals == {Undefined, Num(7 * HOUR)}

Options ==
  [utc : BOOLEAN, refreshAt : RefreshAts, interval : Intervals,
   returnCurrentTime : {Undefined}]

(***************************************************************************)
(* State                                                                   *)
(***************************************************************************)
VARIABLES
  now,       \* Date.now()
  status,    \* "Idle" | "Armed" | "Error" | "Disposed"
  props,     \* the options of the last render
  deps,      \* the dependencies of the effect as last run
  sched,     \* what the last run of the effect computed
  timers,    \* the pending timers of the host
  effect,    \* the timer handles the cleanup of the last run holds
  disposer,  \* the handles of the cleanup that ran last
  nextId,    \* the next timer handle of the host
  gen,       \* the number of runs of the effect
  fired,     \* the calls of refresh since the effect was last run for new options
  error,     \* the error the effect threw
  result,    \* the Date the last render returned, and the instant of that render
  visible    \* the snapshot of usePageVisibility: the page is visible

vars == <<now, status, props, deps, sched, timers, effect, disposer, nextId,
          gen, fired, error, result, visible>>

NoHandles == [timeout |-> 0, relTimeout |-> 0, interval |-> 0]
NoSchedule ==
  [at |-> 0, utc |-> FALSE, midnight |-> 0, next |-> 0, prev |-> 0, ms |-> 0]
NoError == Error("", <<>>)
NoOptions ==
  [utc |-> FALSE, refreshAt |-> Undefined, interval |-> Undefined,
   returnCurrentTime |-> Undefined]
NoResult == [at |-> 0, value |-> 0]

\* [int, refreshAt, refresh]: refresh is the same function on every render.
DepsOf(p) == [int |-> ResolveInterval(p.interval), refreshAt |-> p.refreshAt]

\* DepsChanged for an effect with no dependency list.
DepsChanged_EveryRender(old, new) == TRUE

\* React re-runs an effect when some dependency is not Object.is its
\* previous value.
DepsChanged(old, new) ==
  ~(old.int = new.int /\ ObjectIs(old.refreshAt, new.refreshAt))

\* The component is not mounted yet.
Unmounted ==
  /\ status = "Idle"
  /\ props = NoOptions
  /\ deps = DepsOf(NoOptions)
  /\ sched = NoSchedule
  /\ timers = {}
  /\ effect = NoHandles
  /\ disposer = NoHandles
  /\ nextId = 1
  /\ gen = 0
  /\ fired = <<>>
  /\ error = NoError
  /\ result = NoResult
  /\ visible = TRUE

Init == now \in StartInstants /\ Unmounted

(***************************************************************************)
(* The host's timers                                                       *)
(***************************************************************************)
Timer(id, kind, due, fromTime, ms, g) ==
  [id |-> id, kind |-> kind, due |-> due, fromTime |-> fromTime, ms |-> ms,
   gen |-> g]

\* clearTimeout(id), clearInterval(id): a handle that names no pending timer
\* (undefined, or a timer that fired or was cleared) clears nothing.
ClearTimer(ts, id) == {t \in ts : t.id # id}

\* The timer the host runs next: the earliest due, the oldest among equals.
IsNextTimer(t) ==
  /\ t \in timers
  /\ t.due <= now
  /\ \A u \in timers : u.due > t.due \/ (u.due = t.due /\ u.id >= t.id)

(***************************************************************************)
(* setIntervalRelativeTo and the effect's timers                           *)
(***************************************************************************)
\* Clear without clearInterval(interval).
Clear_TimeoutOnly(ts, h) == ClearTimer(ts, h.relTimeout)

\* Clear without clearTimeout(timeout).
Clear_IntervalOnly(ts, h) == ClearTimer(ts, h.interval)

\* The function setIntervalRelativeTo returns, on the handles h it closes over.
Clear(ts, h) == ClearTimer(ClearTimer(ts, h.relTimeout), h.interval)

\* EffectCleanup without clearTimeout(timeout).
EffectCleanup_KeepsTimeout(ts, h) == Clear(ts, h)

\* The cleanup the effect returns.
EffectCleanup(ts, h) == Clear(ClearTimer(ts, h.timeout), h)

\* setIntervalRelativeTo(fn, fromTime, ms) up to its return: the timeout it
\* sets, with handle id.
setIntervalRelativeTo(ts, fromTime, ms, id, g) ==
  ts \cup {Timer(id, "relTimeout", now + FirstFireDelay(fromTime, ms, now),
                 fromTime, ms, g)}

\* setTimeout(refresh, nextRefresh - now), with handle id.
SetAnchorTimeout(ts, nextRefresh, id, g) ==
  ts \cup {Timer(id, "timeout", now + (nextRefresh - now), 0, 0, g)}

\* The two timers of the effect, with handles id and id + 1.
ArmTimers(ts, s, id, g) ==
  setIntervalRelativeTo(SetAnchorTimeout(ts, s.next, id, g), s.prev, s.ms,
                        id + 1, g)

\* EndEffect with the midnight timeout set before refreshAt is parsed.
EndEffect_TimeoutBeforeParse(p, ts, r) ==
  /\ deps' = DepsOf(p)
  /\ gen' = gen + 1
  /\ IF r.ok
     THEN /\ status' = "Armed"
          /\ sched' = r.value
          /\ timers' = ArmTimers(ts, r.value, nextId, gen + 1)
          /\ effect' = [timeout |-> nextId, relTimeout |-> nextId + 1,
                        interval |-> 0]
          /\ nextId' = nextId + 2
          /\ error' = error
     ELSE /\ status' = "Error"
          /\ sched' = NoSchedule
          /\ timers' = SetAnchorTimeout(ts, now + TWENTY_FOUR_HOURS, nextId,
                                        gen + 1)
          /\ effect' = NoHandles
          /\ nextId' = nextId + 1
          /\ error' = r.error

\* The effect ends for options p, r being the schedule it computed or the
\* error it threw and ts the pending timers.
EndEffect(p, ts, r) ==
  /\ deps' = DepsOf(p)
  /\ gen' = gen + 1
  /\ IF r.ok
     THEN /\ status' = "Armed"
          /\ sched' = r.value
          /\ timers' = ArmTimers(ts, r.value, nextId, gen + 1)
          /\ effect' = [timeout |-> nextId, relTimeout |-> nextId + 1,
                        interval |-> 0]
          /\ nextId' = nextId + 2
          /\ error' = error
     ELSE \* the error reaches the error boundary, which unmounts the
          \* component; the run that threw registered no cleanup
          /\ status' = "Error"
          /\ sched' = NoSchedule
          /\ timers' = ts
          /\ effect' = NoHandles
          /\ nextId' = nextId
          /\ error' = r.error

\* The effect runs for options p, the pending timers being ts.
RunEffect(p, ts) ==
  EndEffect(p, ts, ComputeSchedule(p.utc, p.refreshAt,
                                   ResolveInterval(p.interval), now))

\* The component renders with options p, the pending timers being ts: the
\* effect is run again when its dependencies changed, after the cleanup of
\* its previous run.
Render(p, ts) ==
  /\ props' = p
  /\ result' = [at |-> now, value |-> ReturnValue(p, now)]
  /\ IF status = "Armed" /\ DepsChanged(deps, DepsOf(p))
     THEN /\ RunEffect(p, EffectCleanup(ts, effect))
          /\ disposer' = effect
     ELSE /\ timers' = ts
          /\ UNCHANGED <<status, deps, sched, effect, disposer, nextId, gen,
                         error>>

(***************************************************************************)
(* Actions                                                                 *)
(***************************************************************************)
\* The first render and the first run of the effect.
Mount(p) ==
  /\ status = "Idle"
  /\ props' = p
  /\ result' = [at |-> now, value |-> ReturnValue(p, now)]
  /\ RunEffect(p, timers)
  /\ UNCHANGED <<now, disposer, fired, visible>>

\* The parent renders the component with other options, at one of the
\* instants of Probes.
Rerender(p) ==
  /\ status = "Armed"
  /\ now \in Probes
  /\ p # props
  /\ DepsChanged(deps, DepsOf(p)) => gen < MaxConfigs
  /\ Render(p, timers)
  /\ fired' = IF DepsChanged(deps, DepsOf(p)) THEN <<>> ELSE fired
  /\ UNCHANGED <<now, visible>>

\* refresh(): the call is recorded, and the state it sets renders the
\* component again with the options it has.
Refresh(t, ts) ==
  /\ fired' = Append(fired, [t |-> now, kind |-> t.kind, gen |-> t.gen,
                             cur |-> gen, fromTime |-> t.fromTime,
                             ms |-> t.ms])
  /\ Render(props, ts)

\* The one-shot timer of the effect fires.
FireTimeout ==
  \E t \in timers :
    /\ IsNextTimer(t)
    /\ t.kind = "timeout"
    /\ Refresh(t, timers \ {t})
    /\ UNCHANGED <<now, visible>>

\* The timeout of setIntervalRelativeTo fires: fn(), then
\* interval = setInterval(fn, ms); the state fn() sets renders the component
\* again with the options it has.
FireRelTimeout ==
  \E t \in timers :
    /\ IsNextTimer(t)
    /\ t.kind = "relTimeout"
    /\ fired' = Append(fired, [t |-> now, kind |-> t.kind, gen |-> t.gen,
                               cur |-> gen, fromTime |-> t.fromTime,
                               ms |-> t.ms])
    /\ timers' = (timers \ {t})
                   \cup {Timer(nextId, "interval", now + t.ms, t.fromTime,
                               t.ms, t.gen)}
    /\ nextId' = nextId + 1
    /\ effect' = IF effect.relTimeout = t.id
                 THEN [effect EXCEPT !.interval = nextId] ELSE effect
    /\ disposer' = IF disposer.relTimeout = t.id
                   THEN [disposer EXCEPT !.interval = nextId] ELSE disposer
    /\ result' = [at |-> now, value |-> ReturnValue(props, now)]
    /\ UNCHANGED <<now, status, props, deps, sched, gen, error, visible>>

\* The interval of setIntervalRelativeTo fires and stays pending.
FireInterval ==
  \E t \in timers :
    /\ IsNextTimer(t)
    /\ t.kind = "interval"
    /\ Refresh(t, (timers \ {t}) \cup {[t EXCEPT !.due = t.due + t.ms]})
    /\ UNCHANGED <<now, visible>>

\* The component unmounts: React runs the cleanup of the effect.
Unmount ==
  /\ status = "Armed"
  /\ status' = "Disposed"
  /\ timers' = EffectCleanup(timers, effect)
  /\ disposer' = effect
  /\ effect' = NoHandles
  /\ UNCHANGED <<now, props, deps, sched, nextId, gen, fired, error, result,
                 visible>>

\* A cleanup that already ran is called again.
DisposeAgain ==
  /\ disposer # NoHandles
  /\ timers' = EffectCleanup(timers, disposer)
  /\ UNCHANGED <<now, status, props, deps, sched, effect, disposer, nextId,
                 gen, fired, error, result,
                 visible>>

\* The page becomes hidden or visible: the store of usePageVisibility has a
\* new snapshot, and the component renders again with the options it has.
VisibilityChange ==
  /\ status = "Armed"
  /\ visible' = ~visible
  /\ Render(props, timers)
  /\ UNCHANGED <<now, fired>>

\* Time passes, up to the next pending timer.
Advance ==
  \E t \in Probes \cup {u.due : u \in timers} :
    /\ t > now
    /\ t <= MaxTime
    /\ \A u \in timers : t <= u.due
    /\ now' = t
    /\ UNCHANGED <<status, props, deps, sched, timers, effect, disposer,
                   nextId, gen, fired, error, result,
                 visible>>

\* The options that differ from p in one field.
OneChange(p) ==
  {q \in Options :
     Cardinality({f \in {"utc", "refreshAt", "interval"} : q[f] # p[f]}) = 1}

Next ==
  \/ \E p \in Options : Mount(p)
  \/ \E p \in OneChange(props) : Rerender(p)
  \/ FireTimeout
  \/ FireRelTimeout
  \/ FireInterval
  \/ Unmount
  \/ DisposeAgain
  \/ Advance

Spec == Init /\ [][Next]_vars

\* The same with the page's visibility changing, from the instant of the tests.
NextVisible ==
  \/ \E p \in Options : Mount(p)
  \/ \E p \in OneChange(props) : Rerender(p)
  \/ FireTimeout
  \/ FireRelTimeout
  \/ FireInterval
  \/ VisibilityChange
  \/ Unmount
  \/ DisposeAgain
  \/ Advance

InitVisible == now = TWENTY_FOUR_HOURS + TestOffset /\ Unmounted

SpecVisible == InitVisible /\ [][NextVisible]_vars

(***************************************************************************)
(* setIntervalRelativeTo on its own: it is called once, with a phase       *)
(* reference before, at or after the instant of the call, and its timers   *)
(* run until the function it returned is called.                           *)
(***************************************************************************)
\* Phase references relative to the instant of the call.
PhaseShifts == {-(31 * HOUR), -(7 * HOUR), -(2 * HOUR), 0, 3 * HOUR, 26 * HOUR}
Periods == {5 * HOUR, 7 * HOUR, TWENTY_FOUR_HOURS}

\* const clear = setIntervalRelativeTo(refresh, fromTime, ms)
CallSetIntervalRelativeTo(fromTime, ms) ==
  /\ status = "Idle"
  /\ status' = "Armed"
  /\ timers' = setIntervalRelativeTo(timers, fromTime, ms, nextId, gen + 1)
  /\ effect' = [timeout |-> 0, relTimeout |-> nextId, interval |-> 0]
  /\ sched' = [NoSchedule EXCEPT !.at = now, !.prev = fromTime, !.ms = ms]
  /\ nextId' = nextId + 1
  /\ gen' = gen + 1
  /\ UNCHANGED <<now, props, deps, disposer, fired, error, result,
                 visible>>

\* The timeout fires and fn, the caller's callback, calls clear(): fn() runs
\* first, so clear() finds interval undefined and the timeout already fired,
\* and then the callback goes on to interval = setInterval(fn, ms).
FireRelTimeoutClearing ==
  \E t \in timers :
    /\ IsNextTimer(t)
    /\ t.kind = "relTimeout"
    /\ status = "Armed"
    /\ effect.relTimeout = t.id
    /\ fired' = Append(fired, [t |-> now, kind |-> t.kind, gen |-> t.gen,
                               cur |-> gen, fromTime |-> t.fromTime,
                               ms |-> t.ms])
    /\ timers' = Clear(timers \ {t}, effect)
                   \cup {Timer(nextId, "interval", now + t.ms, t.fromTime,
                               t.ms, t.gen)}
    /\ nextId' = nextId + 1
    /\ status' = "Disposed"
    /\ disposer' = [effect EXCEPT !.interval = nextId]
    /\ effect' = NoHandles
    /\ UNCHANGED <<now, props, deps, sched, gen, error, result, visible>>

\* clear()
CallClear ==
  /\ status = "Armed"
  /\ status' = "Disposed"
  /\ timers' = Clear(timers, effect)
  /\ disposer' = effect
  /\ effect' = NoHandles
  /\ UNCHANGED <<now, props, deps, sched, nextId, gen, fired, error, result,
                 visible>>

\* clear() once more
CallClearAgain ==
  /\ disposer # NoHandles
  /\ timers' = Clear(timers, disposer)
  /\ UNCHANGED <<now, status, props, deps, sched, effect, disposer, nextId,
                 gen, fired, error, result,
                 visible>>

NextRel ==
  \/ \E d \in PhaseShifts, ms \in Periods :
       CallSetIntervalRelativeTo(now + d, ms)
  \/ FireRelTimeout
  \/ FireRelTimeoutClearing
  \/ FireInterval
  \/ CallClear
  \/ CallClearAgain
  \/ Advance

SpecRel == Init /\ [][NextRel]_vars

(***************************************************************************)
(* The parsing runs: the component is mounted once, with a refreshAt drawn *)
(* from strings built of well-formed and malformed parts, alone or in an   *)
(* array, and from arrays with several elements that are no anchors.       *)
(***************************************************************************)
Colon == <<":">>
Dot == <<".">>
HourParts ==
  { <<>>, <<"0">>, <<"8">>, <<"1", "9">>, <<"2", "3">>, <<"2", "4">>,
    <<"3", "0">>, <<"0", "0", "8">>, <<"-", "1">>, <<"a">> }
SexagesimalParts ==
  { <<>>, <<"3">>, <<"0", "0">>, <<"3", "0">>, <<"5", "9">>, <<"6", "0">>,
    <<"3", "0", "0">> }
FractionParts ==
  { <<>>, <<"2">>, <<"0", "5">>, <<"2", "5">>, <<"0", "0", "5">>,
    <<"2", "5", "6">>, <<"2", "5", "6", "7">> }

HParts == HourParts
HMParts == {h \o Colon \o m : h \in HourParts, m \in SexagesimalParts}
HMSParts == {hm \o Colon \o x : hm \in HMParts, x \in SexagesimalParts}
HMSFParts == {hms \o Dot \o f : hms \in HMSParts, f \in FractionParts}

\* Strings the tests give that are not built of such parts.
OtherStrings ==
  { <<"a", "b", "c">>, <<"1", "0", "0">>, <<"8", ".", "5">>,
    <<"8", ":", "3", "0", ":", "5", "5", ":", "2", "5", "6">>,
    <<"8", ":", "3", "0", " ", "A", "M">>,
    <<"8", ":", "3", "0", ":", "5", "5", ".", "2", "5", "6", ":", "0", "0">>,
    <<"8", " ", ":", "3", "0">>, <<" ">>, <<"2", "3", "\n", "5">> }

\* The same with white space around.
Padded(strs) ==
  {<<" ">> \o x \o <<" ">> : x \in strs} \cup {<<"\t">> \o x : x \in strs}
    \cup {x \o <<" ", "\n">> : x \in strs}

Strings ==
  HParts \cup HMParts \cup HMSParts \cup HMSFParts \cup OtherStrings
    \cup Padded(HParts \cup HMParts)

\* A string as the sole value, as the only element, and among numbers.
Shapes(x) ==
  {Str(x), Arr(0, <<Str(x)>>), Arr(0, <<Num(1), Str(x), Num(3)>>)}

\* Elements of which some are no anchors.
Elements ==
  { Num(1), FiveOClock, EightSixty, Str(<<"a", "b", "c">>), Symbol, Null,
    Arr(0, <<Num(2)>>) }
Mixed ==
  {Arr(0, <<a, b>>) : a \in Elements, b \in Elements}
    \cup {Arr(0, <<a, b, c>>) : a \in Elements, b \in Elements, c \in Elements}

\* Numbers as anchors: in the day, a day and more, and negative.
NumericAnchors ==
  { 0, 5 * MINUTE, TWENTY_FOUR_HOURS - 1, TWENTY_FOUR_HOURS,
    TWENTY_FOUR_HOURS + 5 * MINUTE, 49 * HOUR + 30 * MINUTE,
    -1, -(2 * HOUR), -TWENTY_FOUR_HOURS, -(26 * HOUR) }
NumberInputs ==
  {Num(n) : n \in NumericAnchors} \cup {Arr(0, <<Num(n)>>) : n \in NumericAnchors}

ParseInputs == UNION {Shapes(x) : x \in Strings} \cup Mixed \cup NumberInputs

NextParse ==
  \E r \in ParseInputs :
    Mount([utc |-> FALSE, refreshAt |-> r, interval |-> Undefined,
           returnCurrentTime |-> Undefined])

InitParse == Init /\ now = TWENTY_FOUR_HOURS + TestOffset

SpecParse == InitParse /\ [][NextParse]_vars

(***************************************************************************)
(* The runs for the returned value: the component is mounted at the        *)
(* instant of the tests with returnCurrentTime given or not, is rendered   *)
(* with other options, and its timers run.                                 *)
(***************************************************************************)
ReturnRefreshAts ==
  { Undefined, FiveOClock, Num(5 * HOUR), Arr(5, <<FiveOClock>>),
    Arr(1, <<FiveOClock, ElevenPm>>) }
ReturnCurrentTimes == {Undefined, Bool(TRUE), Bool(FALSE)}
ReturnOptions ==
  [utc : BOOLEAN, refreshAt : ReturnRefreshAts, interval : Intervals,
   returnCurrentTime : ReturnCurrentTimes]

\* The options of ReturnOptions that differ from p in one field.
OneReturnChange(p) ==
  {q \in ReturnOptions :
     Cardinality({f \in {"utc", "refreshAt", "interval", "returnCurrentTime"} :
                    q[f] # p[f]}) = 1}

NextReturn ==
  \/ \E p \in ReturnOptions : Mount(p)
  \/ \E p \in OneReturnChange(props) : Rerender(p)
  \/ FireTimeout
  \/ FireRelTimeout
  \/ FireInterval
  \/ Advance

SpecReturn == InitParse /\ [][NextReturn]_vars

(***************************************************************************)
(* The runs for the anchor 0: the component is mounted at a UTC midnight,  *)
(* at a local midnight or at the instant of the tests, with refreshAt      *)
(* absent, 0 or '0', and its timers run.                                   *)
(***************************************************************************)
MidnightStarts ==
  { TWENTY_FOUR_HOURS, TWENTY_FOUR_HOURS + TzOffset,
    TWENTY_FOUR_HOURS + TestOffset }
ZeroRefreshAts == {Undefined, Num(0), Str(<<"0">>)}
ZeroOptions ==
  [utc : BOOLEAN, refreshAt : ZeroRefreshAts, interval : Intervals,
   returnCurrentTime : {Undefined}]

NextZero ==
  \/ \E p \in ZeroOptions : Mount(p)
  \/ FireTimeout
  \/ FireRelTimeout
  \/ FireInterval
  \/ Advance

InitZero == now \in MidnightStarts /\ Unmounted

SpecZero == InitZero /\ [][NextZero]_vars

(***************************************************************************)
(* A component that writes the array of refreshAt in its body, as in       *)
(* useCurrentDate({ refreshAt: ['5:00', '23:05:21.3'] }): each render      *)
(* makes a new array, so every render the hook's refresh causes runs the   *)
(* effect again (the note of index.ts, lines 32-34).                       *)
(***************************************************************************)
\* The array literal evaluated again: the same elements, another reference.
FreshRef(v) == Arr(IF v.id = 1 THEN 2 ELSE 1, v.elems)

\* The options of the next render of such a component.
Fresh(p) == [p EXCEPT !.refreshAt = FreshRef(p.refreshAt)]

FreshOptions ==
  [utc : BOOLEAN, refreshAt : {Arr(1, <<FiveOClock, ElevenPm>>)},
   interval : Intervals, returnCurrentTime : {Undefined}]

\* The one-shot timer of the effect fires: refresh(), and the render it
\* causes has a new array, so the effect is cleaned up and run again at this
\* same instant.
FireTimeoutFresh ==
  \E t \in timers :
    /\ IsNextTimer(t)
    /\ t.kind = "timeout"
    /\ gen < MaxConfigs + 2
    /\ fired' = Append(fired, [t |-> now, kind |-> t.kind, gen |-> t.gen,
                               cur |-> gen, fromTime |-> t.fromTime,
                               ms |-> t.ms])
    /\ Render(Fresh(props), timers \ {t})
    /\ UNCHANGED <<now, visible>>

\* The timeout of setIntervalRelativeTo fires: fn(), then
\* interval = setInterval(fn, ms); the render fn() causes has a new array,
\* and the cleanup of the effect clears that interval before it can fire.
FireRelTimeoutFresh ==
  \E t \in timers :
    /\ IsNextTimer(t)
    /\ t.kind = "relTimeout"
    /\ gen < MaxConfigs + 2
    /\ fired' = Append(fired, [t |-> now, kind |-> t.kind, gen |-> t.gen,
                               cur |-> gen, fromTime |-> t.fromTime,
                               ms |-> t.ms])
    /\ Render(Fresh(props), timers \ {t})
    /\ UNCHANGED <<now, visible>>

NextFresh ==
  \/ \E p \in FreshOptions : Mount(p)
  \/ FireTimeoutFresh
  \/ FireRelTimeoutFresh
  \/ Advance

SpecFresh == Init /\ [][NextFresh]_vars

(***************************************************************************)
(* Properties                                                              *)
(***************************************************************************)
Range(f) == {f[i] : i \in DOMAIN f}

RepeatingKinds == {"relTimeout", "interval"}

\* The anchor instants of the schedule: its midnight, or the midnight of
\* another day, plus the offset of one of the anchors configured.
AnchorInstants ==
  { sched.midnight + k * TWENTY_FOUR_HOURS + v :
      k \in -1..(MaxDays + 1), v \in Range(getRefreshValues(props.refreshAt).value) }

\* C1: with two or more anchors in an array given once and the component
\* never unmounted, every anchor instant from the configuration on is
\* notified at that instant: once it has passed, refresh was called at it.
C1_EveryAnchorInstantNotified ==
  ( /\ status = "Armed"
    /\ gen = 1
    /\ props.utc = sched.utc
    /\ props.refreshAt.type = "array"
    /\ Len(props.refreshAt.elems) >= 2 )
  => \A a \in AnchorInstants :
       (sched.at <= a /\ a < now) => \E i \in DOMAIN fired : fired[i].t = a

\* C2: with anchors and an interval configured, after the one-shot timer
\* fired at an anchor instant A, every later call of refresh by the repeating
\* timer before the next anchor instant is at A plus a multiple of the
\* interval.
C2_IntervalCountedFromFiredAnchor ==
  ( /\ status = "Armed"
    /\ props.refreshAt.type \notin {"undefined", "null"}
    /\ props.interval.type = "number" )
  => \A i, j \in DOMAIN fired :
       ( /\ i < j
         /\ fired[i].kind = "timeout"
         /\ fired[j].kind \in RepeatingKinds
         /\ fired[j].t > fired[i].t
         /\ ~\E a \in AnchorInstants : fired[i].t < a /\ a <= fired[j].t )
       => (fired[j].t - fired[i].t) % sched.ms = 0

\* C3: every call of refresh by the repeating timer is at the phase
\* reference plus a multiple of the period, one period after the call before
\* it, whether the timer was set before, at or after the phase reference.
C3_FiresOnPhaseGrid ==
  \A i \in DOMAIN fired :
    fired[i].kind \in RepeatingKinds
    => /\ (fired[i].t - fired[i].fromTime) % fired[i].ms = 0
       /\ i > 1 => fired[i].t - fired[i - 1].t = fired[i].ms

\* The repeating timer was set before its phase reference and has fired, by
\* its timeout and by its interval.
C3_Witness ==
  /\ Len(fired) >= 3
  /\ sched.prev > sched.at
  /\ fired[1].t > sched.prev

\* C4: once the cleanup of a schedule has run, in whatever state, refresh is
\* never called again and no timer is pending, also when the cleanup is
\* called again.
C4_DisposalFinal ==
  [][ status = "Disposed"
      => (status' = "Disposed" /\ fired' = fired /\ timers' = {}) ]_vars

\* The component was unmounted after the interval had started, and the clock
\* has passed the instant of the interval's next fire.
C4_Witness ==
  /\ status = "Disposed"
  /\ disposer.interval # 0
  /\ fired # <<>>
  /\ now > fired[Len(fired)].t + sched.ms

\* C5: every call of refresh comes from a timer set by the run of the effect
\* that is the last one when the timer fires.
C5_OnlyLatestTimersFire ==
  \A i \in DOMAIN fired : fired[i].gen = fired[i].cur

\* Refresh was called after the effect had run again, the schedule it
\* replaced having started its interval.
C5_Witness ==
  /\ status = "Armed"
  /\ gen = 2
  /\ disposer.interval # 0
  /\ fired # <<>>

\* C6: when only the utc option changes, the effect runs again: the timers
\* pending afterwards are those of a new run, computed from the midnight of
\* the new mode.
C6_UtcChangeReconfigures ==
  [][ ( /\ status = "Armed"
        /\ props'.utc # props.utc
        /\ props'.refreshAt = props.refreshAt
        /\ props'.interval = props.interval )
      => ( /\ gen' = gen + 1
           /\ sched'.midnight = getCurrentMidnight(props'.utc, now)
           /\ \A t \in timers' : t.gen = gen' ) ]_vars

\* C7: after every run of the effect either the two timers of that run are
\* pending and no other, or an error was thrown and no timer is pending.
C7_AllOrNothing ==
  /\ status = "Error" => (error # NoError /\ timers = {})
  /\ status = "Armed" =>
       /\ error = NoError
       /\ \A t \in timers : t.gen = gen
       /\ fired = <<>> =>
            /\ Cardinality(timers) = 2
            /\ {t.kind : t \in timers} = {"timeout", "relTimeout"}

\* The effect threw when it ran again, for new options.
C7_Witness ==
  /\ status = "Error"
  /\ gen = 2
  /\ disposer.timeout # 0

\* C8: a run of the effect for an empty array throws 'refreshAt must have at
\* least one value' and leaves no timer pending.
C8_EmptyArrayRejected ==
  ( /\ status # "Idle"
    /\ props.refreshAt.type = "array"
    /\ props.refreshAt.elems = <<>> )
  => /\ status = "Error"
     /\ error = [text |-> "refreshAt must have at least one value",
                 received |-> <<>>]
     /\ timers = {}

C8_Witness ==
  /\ status = "Error"
  /\ props.refreshAt.type = "array"
  /\ props.refreshAt.elems = <<>>
  /\ gen = 2

\* The fields of s between the occurrences of the character c.
RECURSIVE Fields(_, _)
Fields(s, c) ==
  LET at == {i \in 1..Len(s) : s[i] = c}
  IN IF at = {} THEN <<s>>
     ELSE LET i == CHOOSE k \in at : \A l \in at : k <= l
          IN <<SubSeq(s, 1, i - 1)>> \o Fields(SubSeq(s, i + 1, Len(s)), c)

\* Between lo and hi decimal digits, of value at most max.
IsNumeral(s, lo, hi, max) ==
  /\ Len(s) \in lo..hi
  /\ \A i \in 1..Len(s) : s[i] \in Digits
  /\ ToNumber(s) <= max

\* SS or SS.F
IsSeconds(s) ==
  LET g == Fields(s, ".")
  IN /\ Len(g) \in 1..2
     /\ IsNumeral(g[1], 2, 2, 59)
     /\ Len(g) = 2 => IsNumeral(g[2], 1, 3, 999)

\* The grammar H(:MM(:SS(.F)?)?)?
InGrammar(s) ==
  LET f == Fields(s, ":")
  IN /\ Len(f) \in 1..3
     /\ IsNumeral(f[1], 1, 2, 23)
     /\ Len(f) >= 2 => IsNumeral(f[2], 2, 2, 59)
     /\ Len(f) = 3 => IsSeconds(f[3])

\* refreshAt is one string: alone, or in an array among numbers.
IsOneString(r) ==
  \/ r.type = "string"
  \/ /\ r.type = "array"
     /\ Cardinality({i \in DOMAIN r.elems : r.elems[i].type = "string"}) = 1
     /\ \A i \in DOMAIN r.elems : r.elems[i].type \in {"string", "number"}

TheString(r) ==
  IF r.type = "string" THEN r.s
  ELSE r.elems[CHOOSE i \in DOMAIN r.elems : r.elems[i].type = "string"].s

\* C9: a string that, trimmed, is not of the grammar makes the run of the
\* effect throw the invalid-format error with the string as given, alone or
\* in an array, and no timer is pending.
C9_MalformedStringRejected ==
  ( /\ status # "Idle"
    /\ IsOneString(props.refreshAt)
    /\ ~InGrammar(Trim(TheString(props.refreshAt))) )
  => /\ status = "Error"
     /\ error.text
          = "Invalid refreshAt value format.  Expected h[:mm[:ss[.ms]]].  Received: "
     /\ error.received = TheString(props.refreshAt)
     /\ timers = {}

\* ' 24 ' among numbers was rejected, with its white space.
C9_Witness ==
  /\ status = "Error"
  /\ props.refreshAt.type = "array"
  /\ Len(props.refreshAt.elems) = 3
  /\ error.received = <<" ", "2", "4", " ">>

\* An element that is no anchor: no number and no string of the grammar.
IsOffending(e) ==
  /\ e.type # "number"
  /\ e.type = "string" => ~InGrammar(Trim(e.s))

ErrorFor(e) ==
  IF e.type = "string"
  THEN [text |-> "Invalid refreshAt value format.  Expected h[:mm[:ss[.ms]]].  Received: ",
        received |-> e.s]
  ELSE [text |-> "refreshAt must be a string, a number, or an array of strings and numbers",
        received |-> <<>>]

\* C10: the error of an array is that of its first element that is no
\* anchor, whatever follows it.
C10_FirstOffendingElementDecides ==
  ( /\ status # "Idle"
    /\ props.refreshAt.type = "array"
    /\ \E i \in DOMAIN props.refreshAt.elems : IsOffending(props.refreshAt.elems[i]) )
  => LET bad == {i \in DOMAIN props.refreshAt.elems :
                   IsOffending(props.refreshAt.elems[i])}
         first == CHOOSE i \in bad : \A j \in bad : i <= j
     IN /\ status = "Error"
        /\ error = ErrorFor(props.refreshAt.elems[first])

\* A malformed string came before a symbol and another malformed string.
C10_Witness ==
  /\ status = "Error"
  /\ props.refreshAt.type = "array"
  /\ props.refreshAt.elems = <<EightSixty, Symbol, Str(<<"a", "b", "c">>)>>
  /\ error.received = <<"8", ":", "6", "0">>

\* The i-th field of f, empty when f has fewer fields.
FieldAt(f, i) == IF i <= Len(f) THEN f[i] ELSE <<>>

\* What a string of the grammar stands for: hours, minutes and seconds, and
\* the fraction digits right-padded with zeros to three digits, in
\* milliseconds; a part that is missing counts as 0.
ExpectedMs(secs) ==
  ToNumber(FieldAt(secs, 1)) * 1000
    + (IF Len(secs) = 2 THEN ToNumber(PadEnd(secs[2], 3, "0")) ELSE 0)

ExpectedOffset(s) ==
  LET f == Fields(s, ":")
  IN ToNumber(f[1]) * 3600000 + ToNumber(FieldAt(f, 2)) * 60000
       + ExpectedMs(Fields(FieldAt(f, 3), "."))

\* C11: for a string of the grammar given as the sole anchor, the offset the
\* effect schedules from (the anchor instant it resolved, counted from the
\* midnight of its day) is hours * 3600000 + minutes * 60000 + seconds * 1000
\* + the fraction padded to three digits, so that '.05' is 50 and '.005' is 5.
C11_TextualOffset ==
  ( /\ status = "Armed"
    /\ props.refreshAt.type = "string"
    /\ InGrammar(Trim(props.refreshAt.s)) )
  => (sched.next - sched.midnight) % TWENTY_FOUR_HOURS
       = ExpectedOffset(Trim(props.refreshAt.s))

\* refreshAt is one number, alone or the only element of an array.
IsOneNumber(r) ==
  \/ r.type = "number"
  \/ (r.type = "array" /\ Len(r.elems) = 1 /\ r.elems[1].type = "number")

TheNumber(r) == IF r.type = "number" THEN r.n ELSE r.elems[1].n

\* A number brought into the day.
Normalized(n) == ((n % 86400000) + 86400000) % 86400000

\* C12: a number n given as the sole anchor is scheduled as the offset
\* ((n mod 86400000) + 86400000) mod 86400000 of the day: the one-shot timer
\* is armed for the first instant from now on that is a midnight plus that
\* offset, for negative n and for n of a day and more.
C12_NumericOffsetNormalized ==
  ( /\ status = "Armed"
    /\ IsOneNumber(props.refreshAt) )
  => LET v == Normalized(TheNumber(props.refreshAt))
     IN sched.next = IF sched.midnight + v >= sched.at
                     THEN sched.midnight + v
                     ELSE sched.midnight + TWENTY_FOUR_HOURS + v

\* The orders in which the elements of s can be listed.
Orders(s) ==
  { [i \in 1..Len(s) |-> s[f[i]]] :
      f \in {g \in [1..Len(s) -> 1..Len(s)] :
               \A i, j \in 1..Len(s) : g[i] = g[j] => i = j} }

\* The timers pending, without their handles.
Armed(ts) ==
  {[kind |-> t.kind, due |-> t.due, fromTime |-> t.fromTime, ms |-> t.ms] :
     t \in ts}

\* C13: when the effect has run for an array of anchors, the schedule it
\* computed (next and previous instant) and the timers it armed, which
\* decide every later call of refresh, are those it computes and arms at
\* that instant for the same anchors listed in any other order.
C13_OrderIrrelevant ==
  ( /\ status = "Armed"
    /\ now = sched.at
    /\ fired = <<>>
    /\ props.refreshAt.type = "array" )
  => \A q \in Orders(props.refreshAt.elems) :
       LET r == ComputeSchedule(sched.utc, Arr(0, q), sched.ms, sched.at)
       IN /\ r.ok
          /\ r.value = sched
          /\ Armed(ArmTimers({}, r.value, 1, gen)) = Armed(timers)

\* The effect ran, after an earlier configuration, for the three anchors
\* listed latest first, at an instant between two of them.
C13_Witness ==
  /\ status = "Armed"
  /\ now = sched.at
  /\ fired = <<>>
  /\ gen = 2
  /\ props.refreshAt.type = "array"
  /\ Len(props.refreshAt.elems) = 3
  /\ sched.prev = sched.midnight + 5 * 3600000
  /\ sched.next = sched.midnight + 10 * 3600000

\* The midnight of the day of instant t: of the UTC day, or of the local day.
MidnightOfDay(utc, t) ==
  CHOOSE m \in {k * 86400000 + (IF utc THEN 0 ELSE TzOffset) :
                  k \in -1..(MaxDays + 1)} :
    m <= t /\ t < m + 86400000

\* C14: with refreshAt undefined or null the effect throws nothing; it
\* resolves the next instant to the midnight that follows (of the UTC day or
\* of the local day, as the utc option says when it runs) and the previous
\* one to the midnight of today; with no interval given, refresh is called
\* at that next midnight and is not called before it.
C14_AbsentAnchorsMeanMidnight ==
  ( /\ status # "Idle"
    /\ props.refreshAt.type \in {"undefined", "null"} )
  => /\ status # "Error"
     /\ error = NoError
     /\ sched.prev = MidnightOfDay(sched.utc, sched.at)
     /\ sched.next = MidnightOfDay(sched.utc, sched.at) + 86400000
     /\ (status = "Armed" /\ props.interval.type = "undefined")
          => /\ \A i \in DOMAIN fired : fired[i].t >= sched.next
             /\ now > sched.next => \E i \in DOMAIN fired : fired[i].t = sched.next

\* With refreshAt null and utc set, refresh was called at the UTC midnight
\* that followed, and the clock has moved on.
C14_Witness ==
  /\ status = "Armed"
  /\ props.refreshAt.type = "null"
  /\ props.interval.type = "undefined"
  /\ sched.utc
  /\ fired # <<>>
  /\ fired[1].t = sched.at - (sched.at % 86400000) + 86400000
  /\ now > fired[1].t

\* The offset in the day an anchor stands for.
AnchorOffset(e) ==
  IF e.type = "number" THEN Normalized(e.n) ELSE ExpectedOffset(Trim(e.s))

\* The offsets configured: those of the anchors, 0 when refreshAt is absent.
ConfiguredOffsets ==
  IF props.refreshAt.type \in {"undefined", "null"} THEN {0}
  ELSE IF props.refreshAt.type = "array"
  THEN {AnchorOffset(props.refreshAt.elems[i]) : i \in DOMAIN props.refreshAt.elems}
  ELSE {AnchorOffset(props.refreshAt)}

\* C15: with no interval given, every call of refresh of a schedule that is
\* not disposed is at a midnight plus one of the offsets configured: none
\* falls between two anchor instants.
C15_DefaultIntervalOnlyAtAnchors ==
  ( /\ status = "Armed"
    /\ props.interval.type = "undefined" )
  => \A i \in DOMAIN fired :
       (fired[i].t - sched.midnight) % 86400000 \in ConfiguredOffsets

\* With two anchors and no interval, the one-shot timer, the timeout of the
\* repeating timer and its interval have each called refresh.
C15_Witness ==
  /\ status = "Armed"
  /\ props.interval.type = "undefined"
  /\ props.refreshAt.type = "array"
  /\ {fired[i].kind : i \in DOMAIN fired} = {"timeout", "relTimeout", "interval"}

\* C16: for one configuration refresh is not called twice at the same
\* instant, by the one-shot timer and the repeating timer or otherwise.
C16_NoDuplicateNotifications ==
  status = "Armed"
  => \A i, j \in DOMAIN fired : i # j => fired[i].t # fired[j].t

\* C17: the Date a render returns is the instant of the render when
\* returnCurrentTime is true and the midnight of that instant's day (UTC or
\* local, as the utc option says) when it is false; when it is not given it
\* counts as true exactly when an interval is given or refreshAt is an array
\* of two values or more.
C17_ReturnedValue ==
  status # "Idle"
  => LET current ==
           IF props.returnCurrentTime.type = "boolean"
           THEN props.returnCurrentTime.b
           ELSE \/ props.interval.type = "number"
                \/ (props.refreshAt.type = "array" /\ Len(props.refreshAt.elems) >= 2)
     IN result.value = IF current THEN result.at
                       ELSE MidnightOfDay(props.utc, result.at)

\* With a one-element array, no interval and returnCurrentTime not given,
\* the render that followed a call of refresh returned the UTC midnight.
C17_Witness ==
  /\ status = "Armed"
  /\ props.returnCurrentTime.type = "undefined"
  /\ props.interval.type = "undefined"
  /\ props.refreshAt.type = "array"
  /\ Len(props.refreshAt.elems) = 1
  /\ props.utc
  /\ fired # <<>>
  /\ result.at = fired[Len(fired)].t
  /\ result.value < result.at

\* The occurrences of the anchors configured, on the day of the schedule and
\* the days around it.
AnchorOccurrences ==
  {sched.midnight + k * 86400000 + v : k \in -2..2, v \in ConfiguredOffsets}

\* C18: when the effect runs with anchors, at an instant now of the day that
\* starts at the midnight it computed, the next instant it resolves is the
\* least occurrence of an anchor at or after now (today's, or the first of
\* tomorrow when all of today's have passed), so it is now or later and at
\* most 24 hours away.
C18_NextIsLeastOccurrenceFromNow ==
  ( /\ status = "Armed"
    /\ props.refreshAt.type \notin {"undefined", "null"} )
  => /\ sched.midnight <= sched.at
     /\ sched.at < sched.midnight + 86400000
     /\ sched.next \in AnchorOccurrences
     /\ sched.next >= sched.at
     /\ \A a \in AnchorOccurrences : a >= sched.at => sched.next <= a
     /\ sched.next - sched.at <= 86400000

\* All three anchors had passed when the effect ran: next is the earliest
\* of them on the following day.
C18_Witness ==
  /\ status = "Armed"
  /\ props.refreshAt.type = "array"
  /\ Len(props.refreshAt.elems) = 3
  /\ sched.at > sched.midnight + 23 * 3600000 + 5 * 60000 + 21300
  /\ sched.next = sched.midnight + 86400000 + 5 * 3600000

\* C19: when the effect runs with anchors, the previous instant it resolves
\* is the greatest occurrence of an anchor strictly before now: today's, or
\* yesterday's latest when now is before or at every anchor of today.
C19_PrevIsGreatestOccurrenceBeforeNow ==
  ( /\ status = "Armed"
    /\ props.refreshAt.type \notin {"undefined", "null"} )
  => /\ sched.prev \in AnchorOccurrences
     /\ sched.prev < sched.at
     /\ \A a \in AnchorOccurrences : a < sched.at => a <= sched.prev

\* C20: every schedule the effect computes, with anchors or without, has
\* prev <= now < next at the instant it is computed, and next - prev <= 24 h.
C20_ScheduleBracketsNow ==
  status = "Armed"
  => /\ sched.prev <= sched.at
     /\ sched.at < sched.next
     /\ sched.next - sched.prev <= 86400000

\* C21: when the effect runs with anchors at an instant that is itself an
\* occurrence of an anchor, that occurrence is the next instant it resolves
\* (the one-shot timer gets delay 0) and not the previous one, which is an
\* occurrence strictly before now.
C21_AnchorAtNowIsNext ==
  ( /\ status = "Armed"
    /\ props.refreshAt.type \notin {"undefined", "null"}
    /\ sched.at \in AnchorOccurrences )
  => /\ sched.next = sched.at
     /\ sched.prev # sched.at
     /\ sched.prev \in AnchorOccurrences
     /\ sched.prev < sched.at

\* C22: when the effect has armed the repeating timer, the delay of its
\* first fire is in (0, interval] and the first fire is on the grid of the
\* previous anchor instant: it is the first point of prev + k * interval
\* strictly after now.
C22_FirstFireIsNextGridPoint ==
  ( /\ status = "Armed"
    /\ now = sched.at
    /\ fired = <<>> )
  => \A t \in timers :
       t.kind = "relTimeout"
       => /\ t.due - sched.at > 0
          /\ t.due - sched.at <= sched.ms
          /\ (t.due - sched.prev) % sched.ms = 0

\* The one-shot timers and the repeating timers pending, without their dues.
OneShots(ts) == {t \in ts : t.kind = "timeout"}
Repeating(ts) ==
  {[fromTime |-> t.fromTime, ms |-> t.ms] : t \in {u \in ts : u.kind \in RepeatingKinds}}

\* C25: when the page's visibility changes, the component renders again (it
\* returns a Date computed at that instant) and the effect does not run: the
\* timers pending, with their handles, dues, phases and periods, and the
\* schedule are as they were.
C25_VisibilityLeavesTimers ==
  [][ visible' # visible
      => ( /\ result'.at = now
           /\ timers' = timers
           /\ sched' = sched
           /\ effect' = effect
           /\ gen' = gen
           /\ status' = status ) ]_vars

\* The page was hidden while the one-shot timer and the interval of the
\* repeating timer were pending, and the component rendered at that instant.
C25_Witness ==
  /\ status = "Armed"
  /\ ~visible
  /\ result.at = now
  /\ sched.at < now
  /\ fired # <<>>
  /\ fired[Len(fired)].t < now
  /\ {t.kind : t \in timers} = {"timeout", "interval"}

\* C27: at every instant at most two timers of the effect are pending, one
\* one-shot timer at most and one of the repeating timer (its timeout or its
\* interval) at most, and none once the component is unmounted.
C27_AtMostTwoTimers ==
  /\ Cardinality(timers) <= 2
  /\ Cardinality(OneShots(timers)) <= 1
  /\ Cardinality({t \in timers : t.kind \in RepeatingKinds}) <= 1
  /\ status = "Disposed" => timers = {}

\* After a reconfiguration and a change of visibility, the one-shot timer
\* and the interval are pending and no other.
C27_Witness ==
  /\ status = "Armed"
  /\ gen = 2
  /\ ~visible
  /\ disposer.interval # 0
  /\ Cardinality(timers) = 2
  /\ {t.kind : t \in timers} = {"timeout", "interval"}

\* C23: a call of refresh by the repeating timer, the options being what
\* they were, leaves the schedule as it is: the effect does not run again,
\* midnight, next and prev are not computed anew, the one-shot timer stays
\* pending with its due, and the repeating timer keeps its phase and period.
C23_IntervalFireLeavesSchedule ==
  [][ ( /\ status = "Armed"
        /\ Len(fired') = Len(fired) + 1
        /\ fired'[Len(fired')].kind \in RepeatingKinds )
      => ( /\ status' = status
           /\ gen' = gen
           /\ sched' = sched
           /\ OneShots(timers') = OneShots(timers)
           /\ Repeating(timers') = Repeating(timers) ) ]_vars

\* With an interval of seven hours, the interval has called refresh twice
\* while the one-shot timer of the same run was pending.
C23_Witness ==
  /\ status = "Armed"
  /\ gen = 1
  /\ props.interval.type = "number"
  /\ Len(fired) >= 3
  /\ fired[Len(fired)].kind = "interval"
  /\ fired[Len(fired) - 1].kind = "interval"
  /\ OneShots(timers) # {}

\* C24: when the component is rendered with another interval and the same
\* anchors, no anchor instant lying between the last run of the effect and
\* now, the timers of the last run are cleared, and the repeating timer set
\* anew has the previous anchor instant of the last run as its phase: its
\* first fire is that instant plus a multiple of the new interval.
C24_NewIntervalKeepsPhase ==
  [][ ( /\ status = "Armed"
        /\ props.utc = sched.utc
        /\ props'.interval # props.interval
        /\ props'.refreshAt = props.refreshAt
        /\ props'.utc = props.utc
        /\ ~\E a \in AnchorOccurrences : sched.at <= a /\ a <= now )
      => ( /\ status' = "Armed"
           /\ gen' = gen + 1
           /\ \A t \in timers' : t.gen = gen'
           /\ sched'.prev = sched.prev
           /\ \A t \in timers' :
                t.kind = "relTimeout"
                => /\ t.fromTime = sched.prev
                   /\ (t.due - sched.prev) % sched'.ms = 0 ) ]_vars

\* C26: once the function setIntervalRelativeTo returned has been called,
\* from the callback during the first fire included, the repeating timer
\* does not call the callback again.
C26_NoFireAfterCancel ==
  [][ status = "Disposed" => fired' = fired ]_vars

\* C28: with the single anchor 0 or '0' the effect computes, at every
\* instant, a midnight included, the next and previous instants it computes
\* with refreshAt absent, and arms the same timers, which decide the calls of
\* refresh that follow.
C28_ZeroAnchorAsAbsent ==
  ( /\ status = "Armed"
    /\ props.refreshAt.type \in {"number", "string"} )
  => LET r == ComputeSchedule(sched.utc, Undefined, sched.ms, sched.at)
     IN /\ sched.next = r.value.next
        /\ sched.prev = r.value.prev
        /\ (now = sched.at /\ fired = <<>>)
             => Armed(timers) = Armed(ArmTimers({}, r.value, 1, gen))

\* C29: when the effect runs again at the very instant its one-shot timer
\* fired, the array of refreshAt being a new reference on each render, the
\* one-shot timer it arms is due strictly later: no zero-delay timer is armed
\* for the anchor that has just fired.
C29_RearmStrictlyLater ==
  ( /\ status = "Armed"
    /\ fired # <<>>
    /\ fired[Len(fired)].kind = "timeout"
    /\ fired[Len(fired)].t = sched.at )
  => /\ sched.next > sched.at
     /\ \A t \in timers : t.kind = "timeout" => t.due > sched.at

====
